---- MODULE Spec2Model ----
(***************************************************************************)
(* The items backend (backend/main.go): bootstrap of the store connection  *)
(* and schema, then the HTTP handler chain withCORS -> mux -> handleHealth *)
(* / handleItems -> listItems / createItem over the items table.           *)
(*                                                                         *)
(* Strings that the code inspects character by character (titles) are     *)
(* sequences of one-character strings; header values and fixed bodies are  *)
(* plain strings.                                                          *)
(***************************************************************************)
EXTENDS Integers, Sequences, FiniteSets, TLC

\* ------------------------------------------------------------------ bounds

\* The store clock (now()) runs over 0..MaxClock.
MaxClock == 1
\* The items_id_seq sequence hands out at most MaxSeq ids.
MaxSeq == 2

\* HTTP connections, one goroutine per request in flight.
Clients == {"c1", "c2", "c3"}

\* ------------------------------------------------------- program constants

StatusOK == 200
StatusCreated == 201
StatusNoContent == 204
StatusBadRequest == 400
StatusNotFound == 404
StatusMethodNotAllowed == 405
StatusInternalServerError == 500
StatusServiceUnavailable == 503

ApplicationJSON == "application/json"
\* http.Error's content type, also what net/http sniffs for a JSON text body.
TextPlain == "text/plain; charset=utf-8"
AllowItems == "GET, POST, OPTIONS"

HealthPath == "/api/health"
ItemsPath == "/api/items"
OtherPath == "/"

\* ----------------------------------------------------------------- strings

\* strings.TrimSpace: strip leading and trailing white space, keep the inside.
IsSpace(ch) == ch \in {" ", "\t", "\n"}

RECURSIVE TrimLeft(_)
TrimLeft(s) ==
    IF s = <<>> THEN s
    ELSE IF IsSpace(Head(s)) THEN TrimLeft(Tail(s)) ELSE s

RECURSIVE TrimRight(_)
TrimRight(s) ==
    IF s = <<>> THEN s
    ELSE IF IsSpace(s[Len(s)]) THEN TrimRight(SubSeq(s, 1, Len(s) - 1)) ELSE s

TrimSpace(s) == TrimRight(TrimLeft(s))

\* ------------------------------------------------------------ request data

\* Titles a client may put in the JSON body.
Titles == { <<>>, <<" ", "\t">>, <<" ", "a", " ">>, <<"b", " ", "c">> }

\* A request body, by what encoding/json's Decoder sees in it:
\*   prefix   the first JSON value of the stream
\*            "syntaxError"     no JSON value can be read (not json, or empty)
\*            "objNoTitle"      {}            an object without "title"
\*            "objTitleNumber"  {"title": 5}  a title that is no string
\*            "objTitle"        {"title": t}
\*   trailing whether non-space bytes follow the first value
MkBody(prefix, title, trailing) ==
    [prefix |-> prefix, title |-> title, trailing |-> trailing]

NoBody == MkBody("syntaxError", <<>>, FALSE)

Bodies ==
    { NoBody, MkBody("objNoTitle", <<>>, FALSE), MkBody("objTitleNumber", <<>>, FALSE) }
    \cup { MkBody("objTitle", t, FALSE) : t \in Titles }
    \cup { MkBody("objTitle", <<" ", "a", " ">>, TRUE) }

\* json.NewDecoder(r.Body).Decode(&req) into createItemRequest{Title string}:
\* Decode reads the FIRST JSON value of the stream and stops right after it,
\* so bytes that follow the value are never looked at.  A value that cannot
\* be read, or a title of the wrong JSON type, is an error; an absent title
\* leaves Title at its zero value "".
Decode(b) ==
    [err   |-> b.prefix \in {"syntaxError", "objTitleNumber"},
     title |-> IF b.prefix = "objTitle" THEN b.title ELSE <<>>]

MkReq(method, path, body) == [method |-> method, path |-> path, body |-> body]

NoReq == MkReq("", "", NoBody)

Requests ==
    { MkReq(m, p, NoBody) : m \in {"GET", "OPTIONS", "DELETE"}, p \in {HealthPath, ItemsPath} }
    \cup { MkReq("PUT", ItemsPath, NoBody) }
    \cup { MkReq("POST", ItemsPath, b) : b \in Bodies }
    \cup { MkReq("POST", HealthPath, NoBody), MkReq("GET", OtherPath, NoBody) }

\* ------------------------------------------------------------------- store

\* type Item struct { ID, Title, CreatedAt } = a row of the items table.
MkItem(id, title, createdAt) == [id |-> id, title |-> title, created_at |-> createdAt]

NoItem == MkItem(0, <<>>, 0)

\* id SERIAL: nextval of items_id_seq.
NextVal(s) == s + 1

\* All orderings of a set of rows.
RECURSIVE Perms(_)
Perms(S) ==
    IF S = {} THEN { <<>> }
    ELSE UNION { { <<x>> \o p : p \in Perms(S \ {x}) } : x \in S }

NonIncreasing(q) ==
    \A i \in 1..Len(q) : \A j \in 1..Len(q) :
        i < j => q[i].created_at >= q[j].created_at

\* Mutant: the ORDER BY clause left out.
OrderByNothing(table) == Perms(table)

\* SELECT id, title, created_at FROM items ORDER BY created_at DESC:
\* the result sets the store may return; rows with equal created_at come
\* in whatever order the store has them.
OrderByCreatedAtDesc(table) == { q \in Perms(table) : NonIncreasing(q) }

\* -------------------------------------------------------- response writer

MkPayload(kind, text, item, items) ==
    [kind |-> kind, text |-> text, item |-> item, items |-> items]

NoPayload == MkPayload("none", "", NoItem, <<>>)
TextPayload(msg) == MkPayload("text", msg, NoItem, <<>>)
StatusPayload(s) == MkPayload("status", s, NoItem, <<>>)
ItemPayload(it) == MkPayload("item", "", it, <<>>)
ItemsPayload(its) == MkPayload("items", "", NoItem, its)

\* A fresh http.ResponseWriter: no header set, status not yet written.
NewWriter == [status |-> 0, ctype |-> "", allow |-> "", cors |-> FALSE, body |-> NoPayload]

NoResp == NewWriter

\* w.WriteHeader(code)
WriteHeader(w, code) == [w EXCEPT !.status = IF @ = 0 THEN code ELSE @]

\* w.Header().Set("Content-Type", v)
SetContentType(w, v) == [w EXCEPT !.ctype = v]

\* w.Write (through json.NewEncoder(w).Encode): the first write sends status
\* 200 unless one was written, and a Content-Type left unset is sniffed.
Write(w, payload) ==
    [w EXCEPT !.status = IF @ = 0 THEN StatusOK ELSE @,
              !.ctype  = IF @ = "" THEN TextPlain ELSE @,
              !.body   = payload]

\* http.Error(w, msg, code): replaces Content-Type by text/plain, keeps the
\* other headers, writes the code and the message.
HttpError(w, msg, code) ==
    Write(WriteHeader(SetContentType(w, TextPlain), code), TextPayload(msg))

\* withCORS, the part before the method test: the three CORS headers.
CORSHeaders(w) == [w EXCEPT !.cors = TRUE]

\* ---------------------------------------------------------------- handlers

\* Mutant: the ping's error ignored.
handleHealthIgnoresPing(w, pingOk) ==
    Write(SetContentType(w, ApplicationJSON), StatusPayload("ok"))

\* handleHealth: Content-Type first, then the 1-second ping decides.
handleHealth(w, pingOk) ==
    LET w1 == SetContentType(w, ApplicationJSON)
    IN  IF ~pingOk
        THEN Write(WriteHeader(w1, StatusServiceUnavailable), StatusPayload("down"))
        ELSE Write(w1, StatusPayload("ok"))

\* handleItems: the switch on r.Method.
handleItemsCase(method) ==
    CASE method = "GET"     -> "listItems"
      [] method = "POST"    -> "createItem"
      [] method = "OPTIONS" -> "noContent"
      [] OTHER              -> "notAllowed"

\* Mutant: the default case without its Allow header.
handleItemsDirectNoAllow(w, method) ==
    IF handleItemsCase(method) = "noContent"
    THEN WriteHeader(w, StatusNoContent)
    ELSE HttpError(w, "method not allowed", StatusMethodNotAllowed)

\* handleItems, the two cases that answer without the store.
handleItemsDirect(w, method) ==
    IF handleItemsCase(method) = "noContent"
    THEN WriteHeader(w, StatusNoContent)
    ELSE HttpError([w EXCEPT !.allow = AllowItems], "method not allowed",
                   StatusMethodNotAllowed)

\* Mutant: the title used as sent, not trimmed.
createItemTitleUntrimmed(body) == Decode(body).title

\* createItem: req.Title = strings.TrimSpace(req.Title) after a good Decode.
createItemTitle(body) == TrimSpace(Decode(body).title)

\* Mutant: the empty-title test left out.
createItemRejectsOnlyBadJSON(body) == Decode(body).err

\* createItem: the two early returns before the store is touched.
createItemRejects(body) == Decode(body).err \/ createItemTitle(body) = <<>>

createItemReject(w, body) ==
    IF Decode(body).err
    THEN HttpError(w, "invalid JSON", StatusBadRequest)
    ELSE HttpError(w, "title is required", StatusBadRequest)

\* The result of one store statement, as the handler sees it:
\*   err  ""  or the step that failed: "insert", "query", "scan", "rows"
\*   item the row of INSERT ... RETURNING
\*   items the rows appended to `items` so far
MkDb(err, item, items) == [err |-> err, item |-> item, items |-> items]

NoDb == MkDb("", NoItem, <<>>)

\* Mutant: the 201 answer without its Content-Type header.
createItemReplyNoContentType(w, db) ==
    IF db.err # ""
    THEN HttpError(w, "failed to create item", StatusInternalServerError)
    ELSE Write(WriteHeader(w, StatusCreated), ItemPayload(db.item))

\* createItem after QueryRowContext(...).Scan(&item...) returned.
createItemReply(w, db) ==
    IF db.err # ""
    THEN HttpError(w, "failed to create item", StatusInternalServerError)
    ELSE Write(WriteHeader(SetContentType(w, ApplicationJSON), StatusCreated),
               ItemPayload(db.item))

\* Mutant: the rows.Err() test left out.
listItemsReplyNoRowsErr(w, db) ==
    IF db.err \in {"query", "scan"}
    THEN HttpError(w, "failed to load items", StatusInternalServerError)
    ELSE Write(SetContentType(w, ApplicationJSON), ItemsPayload(db.items))

\* listItems after the query and the rows loop: any of the three error
\* returns answers 500, else the collected items are encoded.
listItemsReply(w, db) ==
    IF db.err # ""
    THEN HttpError(w, "failed to load items", StatusInternalServerError)
    ELSE Write(SetContentType(w, ApplicationJSON), ItemsPayload(db.items))

\* Mutant: a failed ping logged, not fatal.
AfterPingNoFatal(ok) == "migrate"

\* main: log.Fatalf after a failed bootstrap step, else the next step.
AfterOpen(ok) == IF ok THEN "ping" ELSE "exited"
AfterPing(ok) == IF ok THEN "migrate" ELSE "exited"
AfterMigrate(ok) == IF ok THEN "listen" ELSE "exited"
AfterListen(ok) == IF ok THEN "serving" ELSE "exited"

\* ------------------------------------------------------------------- state

VARIABLES
    mainPc,       \* where main() is: "open", "ping", "migrate", "listen", "serving", "exited"
    bootLog,      \* the bootstrap steps main() has run, in order, each with its outcome
    dbUp,         \* whether the store answers (a ping completes within its bound)
    tableExists,  \* whether the items table exists in the store
    table,        \* the rows of the items table
    seq,          \* last value of items_id_seq
    now,          \* the store clock, now()
    clients,      \* per connection: the request in flight and its response
    hist          \* the 201 answers given so far, in order, each with its request

vars == <<mainPc, bootLog, dbUp, tableExists, table, seq, now, clients, hist>>

IdleClient ==
    [pc |-> "idle", req |-> NoReq, issuedAt |-> 0, prior |-> {}, stmts |-> 0,
     inserted |-> NoItem, db |-> NoDb, resp |-> NoResp]

\* A row an earlier run of the process left in the table.
OldItem == MkItem(1, <<"a">>, 0)

Init ==
    /\ mainPc = "open"
    /\ bootLog = <<>>
    /\ dbUp \in BOOLEAN
    /\ tableExists \in BOOLEAN
    /\ table \in (IF tableExists THEN { {}, {OldItem} } ELSE { {} })
    /\ seq = Cardinality(table)
    /\ now = 0
    /\ clients = [c \in Clients |-> IdleClient]
    /\ hist = <<>>

\* --------------------------------------------------------------- bootstrap

\* sql.Open("pgx", dsn): parses the DSN, opens no connection.
Open ==
    /\ mainPc = "open"
    /\ \E ok \in BOOLEAN :
        /\ bootLog' = Append(bootLog, <<"open", ok>>)
        /\ mainPc' = AfterOpen(ok)
    /\ UNCHANGED <<dbUp, tableExists, table, seq, now, clients, hist>>

\* db.PingContext(ctx) under the 5-second bound.
Ping ==
    /\ mainPc = "ping"
    /\ bootLog' = Append(bootLog, <<"ping", dbUp>>)
    /\ mainPc' = AfterPing(dbUp)
    /\ UNCHANGED <<dbUp, tableExists, table, seq, now, clients, hist>>

\* migrate: CREATE TABLE IF NOT EXISTS items (...): no effect on a table
\* that exists.
Migrate ==
    /\ mainPc = "migrate"
    /\ bootLog' = Append(bootLog, <<"migrate", dbUp>>)
    /\ tableExists' = (tableExists \/ dbUp)
    /\ mainPc' = AfterMigrate(dbUp)
    /\ UNCHANGED <<dbUp, table, seq, now, clients, hist>>

\* srv.ListenAndServe(): binds :8080 or fails.
Listen ==
    /\ mainPc = "listen"
    /\ \E ok \in BOOLEAN :
        /\ bootLog' = Append(bootLog, <<"listen", ok>>)
        /\ mainPc' = AfterListen(ok)
    /\ UNCHANGED <<dbUp, tableExists, table, seq, now, clients, hist>>

\* ------------------------------------------------------------- environment

Tick ==
    /\ now < MaxClock
    /\ now' = now + 1
    /\ UNCHANGED <<mainPc, bootLog, dbUp, tableExists, table, seq, clients, hist>>

StoreDown ==
    /\ dbUp
    /\ dbUp' = FALSE
    /\ UNCHANGED <<mainPc, bootLog, tableExists, table, seq, now, clients, hist>>

StoreUp ==
    /\ ~dbUp
    /\ dbUp' = TRUE
    /\ UNCHANGED <<mainPc, bootLog, tableExists, table, seq, now, clients, hist>>

\* ---------------------------------------------------------------- requests

\* Ids of the items whose 201 answer has been given.
Answered == { hist[i].item.id : i \in 1..Len(hist) }

\* A client sends a request; the listener accepts it.  The record notes
\* the store time of the sending and the 201 answers given before it.
Issue(c, r) ==
    /\ mainPc = "serving"
    /\ clients[c].pc \in {"idle", "done"}
    /\ clients' = [clients EXCEPT ![c] =
            [pc |-> "sent", req |-> r, issuedAt |-> now, prior |-> Answered,
             stmts |-> 0, inserted |-> NoItem, db |-> NoDb, resp |-> NoResp]]
    /\ UNCHANGED <<mainPc, bootLog, dbUp, tableExists, table, seq, now, hist>>

\* The handler returns: the response is complete.  A 201 answer is entered
\* in hist with what is known of its request.
Finish(c, resp) ==
    /\ clients' = [clients EXCEPT ![c].pc = "done", ![c].resp = resp]
    /\ hist' = IF resp.status = StatusCreated
               THEN Append(hist, [item |-> resp.body.item,
                                  title |-> clients[c].req.body.title,
                                  issuedAt |-> clients[c].issuedAt,
                                  prior |-> clients[c].prior])
               ELSE hist

\* The handler has sent a statement and waits for the store's answer;
\* `row` is the row the statement inserted, NoItem when it inserted none.
Await(c, db, row) ==
    clients' = [clients EXCEPT ![c].pc = "dbwait", ![c].db = db,
                               ![c].stmts = @ + 1, ![c].inserted = row]

Sent(c) == mainPc = "serving" /\ clients[c].pc = "sent"

\* withCORS: OPTIONS is answered 204 before the mux is reached.
Preflight(c) ==
    /\ Sent(c)
    /\ clients[c].req.method = "OPTIONS"
    /\ Finish(c, WriteHeader(CORSHeaders(NewWriter), StatusNoContent))
    /\ UNCHANGED <<mainPc, bootLog, dbUp, tableExists, table, seq, now>>

\* mux: a path with no handler is answered by http.NotFound.
NotFound(c) ==
    /\ Sent(c)
    /\ clients[c].req.method # "OPTIONS"
    /\ clients[c].req.path \notin {HealthPath, ItemsPath}
    /\ Finish(c, HttpError(CORSHeaders(NewWriter), "404 page not found", StatusNotFound))
    /\ UNCHANGED <<mainPc, bootLog, dbUp, tableExists, table, seq, now>>

\* withCORS -> mux -> handleHealth, any method but OPTIONS.
HandleHealth(c) ==
    /\ Sent(c)
    /\ clients[c].req.method # "OPTIONS"
    /\ clients[c].req.path = HealthPath
    /\ Finish(c, handleHealth(CORSHeaders(NewWriter), dbUp))
    /\ UNCHANGED <<mainPc, bootLog, dbUp, tableExists, table, seq, now>>

\* withCORS -> mux -> handleItems, a method that is neither GET nor POST.
HandleItemsDirect(c) ==
    /\ Sent(c)
    /\ clients[c].req.method # "OPTIONS"
    /\ clients[c].req.path = ItemsPath
    /\ handleItemsCase(clients[c].req.method) \in {"noContent", "notAllowed"}
    /\ Finish(c, handleItemsDirect(CORSHeaders(NewWriter), clients[c].req.method))
    /\ UNCHANGED <<mainPc, bootLog, dbUp, tableExists, table, seq, now>>

ToCreateItem(c) ==
    /\ Sent(c)
    /\ clients[c].req.method # "OPTIONS"
    /\ clients[c].req.path = ItemsPath
    /\ handleItemsCase(clients[c].req.method) = "createItem"

ToListItems(c) ==
    /\ Sent(c)
    /\ clients[c].req.method # "OPTIONS"
    /\ clients[c].req.path = ItemsPath
    /\ handleItemsCase(clients[c].req.method) = "listItems"

\* createItem, rejected before the store is touched.
CreateItemReject(c) ==
    /\ ToCreateItem(c)
    /\ createItemRejects(clients[c].req.body)
    /\ Finish(c, createItemReject(CORSHeaders(NewWriter), clients[c].req.body))
    /\ UNCHANGED <<mainPc, bootLog, dbUp, tableExists, table, seq, now>>

\* The row INSERT INTO items (title) VALUES ($1) adds: id and created_at
\* are the column defaults.
InsertedRow(title) == MkItem(NextVal(seq), title, now)

\* createItem: the one statement, INSERT ... RETURNING id, title, created_at.
\*   "ok"    the row is inserted and returned
\*   "fail"  the statement fails, nothing is inserted
\*   "lost"  the row is inserted, but the answer never reaches the handler
\*           (the connection breaks, the request context ends)
CreateItemInsert(c) ==
    /\ ToCreateItem(c)
    /\ ~createItemRejects(clients[c].req.body)
    /\ \E outcome \in (IF dbUp /\ seq < MaxSeq THEN {"ok", "fail", "lost"} ELSE {"fail"}) :
        LET row == InsertedRow(createItemTitle(clients[c].req.body))
        IN  IF outcome = "fail"
            THEN /\ Await(c, MkDb("insert", NoItem, <<>>), NoItem)
                 /\ UNCHANGED <<table, seq>>
            ELSE /\ table' = table \cup {row}
                 /\ seq' = NextVal(seq)
                 /\ Await(c, IF outcome = "ok" THEN MkDb("", row, <<>>)
                                ELSE MkDb("insert", NoItem, <<>>), row)
    /\ UNCHANGED <<mainPc, bootLog, dbUp, tableExists, now, hist>>

\* Mutant: insert, then fetch the newest row with a second statement.
ScannedLatest(c) ==
    IF table = {} THEN NoItem
    ELSE CHOOSE r \in table : \A o \in table : o.id <= r.id

\* The item createItem scans out of the statement's result.
ScannedItem(c) == clients[c].db.item

\* createItem, after the statement returned.
CreateItemReply(c) ==
    /\ mainPc = "serving"
    /\ clients[c].pc = "dbwait"
    /\ clients[c].req.method = "POST"
    /\ Finish(c, createItemReply(CORSHeaders(NewWriter),
                                 [clients[c].db EXCEPT !.item = ScannedItem(c)]))
    /\ UNCHANGED <<mainPc, bootLog, dbUp, tableExists, table, seq, now>>

Prefix(q, k) == SubSeq(q, 1, k)

\* What listItems may hold when its loop is over: the whole result, or an
\* error from the query, from a Scan, or from rows.Err() after some rows.
ListResults ==
    { MkDb("query", NoItem, <<>>) }
    \cup (IF dbUp
          THEN UNION { { MkDb("", NoItem, q) }
                       \cup { MkDb("scan", NoItem, Prefix(q, k)) : k \in 0..(Len(q) - 1) }
                       \cup { MkDb("rows", NoItem, Prefix(q, k)) : k \in 0..Len(q) }
                       : q \in OrderByCreatedAtDesc(table) }
          ELSE {})

\* listItems: the one statement and the rows loop.
ListItemsQuery(c) ==
    /\ ToListItems(c)
    /\ \E db \in ListResults : Await(c, db, NoItem)
    /\ UNCHANGED <<mainPc, bootLog, dbUp, tableExists, table, seq, now, hist>>

\* listItems, after the loop.
ListItemsReply(c) ==
    /\ mainPc = "serving"
    /\ clients[c].pc = "dbwait"
    /\ clients[c].req.method = "GET"
    /\ Finish(c, listItemsReply(CORSHeaders(NewWriter), clients[c].db))
    /\ UNCHANGED <<mainPc, bootLog, dbUp, tableExists, table, seq, now>>

\* One connection at a time (c1), every kind of request.
Next ==
    \/ Open
    \/ Ping
    \/ Migrate
    \/ Listen
    \/ Tick
    \/ StoreDown
    \/ StoreUp
    \/ \E r \in Requests : Issue("c1", r)
    \/ \E c \in Clients : Preflight(c)
    \/ \E c \in Clients : NotFound(c)
    \/ \E c \in Clients : HandleHealth(c)
    \/ \E c \in Clients : HandleItemsDirect(c)
    \/ \E c \in Clients : CreateItemReject(c)
    \/ \E c \in Clients : CreateItemInsert(c)
    \/ \E c \in Clients : CreateItemReply(c)
    \/ \E c \in Clients : ListItemsQuery(c)
    \/ \E c \in Clients : ListItemsReply(c)

Spec == Init /\ [][Next]_vars

\* The requests that insert: POST /api/items with a title that trims to
\* something.
StoreRequests ==
    { MkReq("POST", ItemsPath, MkBody("objTitle", t, FALSE)) :
        t \in { <<" ", "a", " ">>, <<"b", " ", "c">> } }

\* A connection sends its first request.
IssueOnce(c, r) == clients[c].pc = "idle" /\ Issue(c, r)

\* Concurrent connections, one goroutine each and one POST each, the steps
\* of their handlers interleaved in every way.
NextConcurrent ==
    \/ Open
    \/ Ping
    \/ Migrate
    \/ Listen
    \/ Tick
    \/ \E c \in Clients : \E r \in StoreRequests : IssueOnce(c, r)
    \/ \E c \in Clients : CreateItemInsert(c)
    \/ \E c \in Clients : CreateItemReply(c)

SpecConcurrent == Init /\ [][NextConcurrent]_vars

\* ------------------------------------------------------------------ claims

Done(c) == clients[c].pc = "done"

On(c, method, path) == clients[c].req.method = method /\ clients[c].req.path = path

\* Some client has the answer to a request of this method and path.
Answers(method, path) == { c \in Clients : Done(c) /\ On(c, method, path) }

\* The 200 answers to GET /api/items.
Listings == { c \in Answers("GET", ItemsPath) : clients[c].resp.status = StatusOK }

Listed(c) == clients[c].resp.body.items

\* The place of an item in a listing, 0 when it is not in it.
Place(q, it) == IF \E i \in 1..Len(q) : q[i] = it
                THEN CHOOSE i \in 1..Len(q) : q[i] = it
                ELSE 0

\* All pairs of 201 answers.
AnswerPairs ==
    { <<hist[i], hist[j]>> : i \in 1..Len(hist), j \in 1..Len(hist) }

\* The pairs <<A, B>> where A's answer was given before B's request was
\* sent: A's create completed before B's began.
CreatedInOrder == { ab \in AnswerPairs : ab[1].item.id \in ab[2].prior }

\* C1: a create answered 201 and then a list answered 200: the list holds
\* the created item, with the trimmed title, a positive id that no other
\* listed item has, and a created_at not before the sending of the create.
C1_CreateThenList ==
    \A c \in Listings : \A k \in 1..Len(hist) :
        hist[k].item.id \in clients[c].prior =>
            \E i \in 1..Len(Listed(c)) :
                /\ Listed(c)[i] = hist[k].item
                /\ Listed(c)[i].title = TrimSpace(hist[k].title)
                /\ Listed(c)[i].title # <<>>
                /\ Listed(c)[i].id > 0
                /\ \A j \in 1..Len(Listed(c)) : j # i => Listed(c)[j].id # Listed(c)[i].id
                /\ Listed(c)[i].created_at >= hist[k].issuedAt

\* C1 witness: a listing of two items, sent after the 201 answers for both.
C1_Witness ==
    \E c \in Listings :
        /\ Len(Listed(c)) >= 2
        /\ Cardinality(clients[c].prior) >= 2
        /\ \E k \in 1..Len(hist) : hist[k].title # TrimSpace(hist[k].title)

\* What the claim calls a body that is valid JSON: one JSON value and
\* nothing but white space after it.
ValidJSON(b) == b.prefix \in {"objNoTitle", "objTitleNumber", "objTitle"} /\ ~b.trailing

\* C2's malformed POST: not valid JSON, or a title that trims to nothing.
Malformed(b) == ~ValidJSON(b) \/ (b.prefix # "objTitleNumber" /\ TrimSpace(b.title) = <<>>)

\* C2: a malformed POST /api/items is answered 400, sends no statement to
\* the store and leaves the table as it was.
C2_MalformedRejected ==
    [][\A c \in Clients :
        (/\ clients[c].pc = "sent"
         /\ clients'[c].pc # "sent"
         /\ On(c, "POST", ItemsPath)
         /\ Malformed(clients[c].req.body))
        => /\ clients'[c].pc = "done"
           /\ clients'[c].resp.status = StatusBadRequest
           /\ clients'[c].stmts = 0
           /\ table' = table]_vars

\* C3 as stated: items created one after the other are listed newest
\* first, in the reverse of the order of their creation.
C3_ReverseCreationOrder ==
    \A c \in Listings :
        /\ NonIncreasing(Listed(c))
        /\ \A ab \in CreatedInOrder :
            (Place(Listed(c), ab[1].item) > 0 /\ Place(Listed(c), ab[2].item) > 0)
            => Place(Listed(c), ab[2].item) < Place(Listed(c), ab[1].item)

\* C3 as amended: every listing is non-increasing in created_at, and items
\* created one after the other with different created_at are listed in the
\* reverse of the order of their creation.
C3_OrderedByCreatedAt ==
    \A c \in Listings :
        /\ NonIncreasing(Listed(c))
        /\ \A ab \in CreatedInOrder :
            (/\ Place(Listed(c), ab[1].item) > 0
             /\ Place(Listed(c), ab[2].item) > 0
             /\ ab[1].item.created_at # ab[2].item.created_at)
            => Place(Listed(c), ab[2].item) < Place(Listed(c), ab[1].item)

\* C3 witness: a listing of two items created one after the other at
\* different store times.
C3_Witness ==
    \E c \in Listings : \E ab \in CreatedInOrder :
        /\ Place(Listed(c), ab[1].item) > 0
        /\ Place(Listed(c), ab[2].item) > 0
        /\ ab[1].item.created_at < ab[2].item.created_at

OnRoutes(c) == clients[c].req.path \in {HealthPath, ItemsPath}

\* C4 as stated: every answer on the health and items routes carries
\* Content-Type: application/json.
C4_AlwaysJSON ==
    \A c \in Clients :
        (Done(c) /\ OnRoutes(c)) => clients[c].resp.ctype = ApplicationJSON

\* C4 as amended: on the health and items routes the 200, 201 and 503
\* answers carry application/json, the 400, 405 and 500 answers carry
\* text/plain; charset=utf-8, and the 204 answer carries no Content-Type.
C4_ContentTypeByStatus ==
    \A c \in Clients :
        (Done(c) /\ OnRoutes(c)) =>
            CASE clients[c].resp.status \in {StatusOK, StatusCreated, StatusServiceUnavailable}
                    -> clients[c].resp.ctype = ApplicationJSON
              [] clients[c].resp.status \in {StatusBadRequest, StatusMethodNotAllowed,
                                             StatusInternalServerError}
                    -> clients[c].resp.ctype = TextPlain
              [] clients[c].resp.status = StatusNoContent
                    -> clients[c].resp.ctype = ""
              [] OTHER -> FALSE

\* C4 witness: a 201 answer, which carries application/json.
C4_Witness ==
    \E c \in Answers("POST", ItemsPath) :
        /\ clients[c].resp.status = StatusCreated
        /\ clients[c].resp.ctype = ApplicationJSON

\* A step in which the handler of c's request sends its INSERT.
InsertStep(c) ==
    /\ clients[c].pc = "sent"
    /\ clients'[c].pc = "dbwait"
    /\ On(c, "POST", ItemsPath)
    /\ TrimSpace(clients[c].req.body.title) # <<>>

\* C5: no step removes or changes a row; a step that adds one is the
\* INSERT of a POST /api/items with a title that trims to something, and
\* adds exactly one; every other step of a request (a GET, a request to
\* /api/health, OPTIONS, a 400, a 405) leaves the table as it was.
C5_OnlyCreateAddsRows ==
    [][/\ table \subseteq table'
       /\ table' # table =>
            /\ Cardinality(table' \ table) = 1
            /\ \E c \in Clients : InsertStep(c)
       /\ \A c \in Clients :
            (clients'[c] # clients[c] /\ ~InsertStep(c)) => table' = table]_vars

\* C5 witness: a DELETE answered while the table holds a row.
C5_Witness ==
    \E c \in Answers("DELETE", ItemsPath) : table # {} /\ clients[c].resp.status # 0

BootSteps == <<"open", "ping", "migrate", "listen">>

\* C6: requests are accepted only after open, ping, migrate and listen each
\* ran once, in that order, and succeeded; a failed step is the last one,
\* the process has exited and no request was ever accepted.
C6_ServeOnlyAfterBootstrap ==
    /\ Len(bootLog) <= Len(BootSteps)
    /\ \A i \in 1..Len(bootLog) : bootLog[i][1] = BootSteps[i]
    /\ (mainPc = "serving" \/ \E c \in Clients : clients[c].pc # "idle")
        => /\ Len(bootLog) = Len(BootSteps)
           /\ \A i \in 1..Len(bootLog) : bootLog[i][2]
           /\ tableExists
    /\ \A i \in 1..Len(bootLog) :
        ~bootLog[i][2] => /\ i = Len(bootLog)
                          /\ mainPc = "exited"
                          /\ \A c \in Clients : clients[c].pc = "idle"

\* C6 witness: a request answered by the serving process.
C6_Witness == mainPc = "serving" /\ \E c \in Clients : Done(c)

GenericErrors == { "failed to create item", "failed to load items" }

\* C7: a GET or POST on /api/items sends at most one statement, and when
\* that statement fails the answer is 500 with the generic text and no item.
C7_FailureIs500 ==
    \A c \in Clients :
        (clients[c].req.path = ItemsPath /\ clients[c].req.method \in {"GET", "POST"})
        => /\ clients[c].stmts <= 1
           /\ (Done(c) /\ clients[c].db.err # "")
                => /\ clients[c].resp.status = StatusInternalServerError
                   /\ clients[c].resp.body.kind = "text"
                   /\ clients[c].resp.body.text \in GenericErrors
                   /\ clients[c].resp.body.items = <<>>
                   /\ clients[c].resp.body.item = NoItem

\* C7 witness: a listing that failed in rows.Err() after a row was read.
C7_Witness ==
    \E c \in Answers("GET", ItemsPath) :
        /\ clients[c].db.err = "rows"
        /\ Len(clients[c].db.items) >= 1
        /\ clients[c].resp.status = StatusInternalServerError

\* C8: a method other than GET, POST and OPTIONS on /api/items is answered
\* 405 with Allow: GET, POST, OPTIONS, and no statement is sent.
C8_MethodNotAllowed ==
    \A c \in Clients :
        (/\ clients[c].pc # "idle"
         /\ clients[c].req.path = ItemsPath
         /\ clients[c].req.method \notin {"GET", "POST", "OPTIONS"})
        => /\ clients[c].stmts = 0
           /\ clients[c].pc # "dbwait"
           /\ Done(c) => /\ clients[c].resp.status = StatusMethodNotAllowed
                         /\ clients[c].resp.allow = AllowItems

\* C8 witness: a DELETE /api/items answered 405.
C8_Witness ==
    \E c \in Answers("DELETE", ItemsPath) :
        clients[c].resp.status = StatusMethodNotAllowed

\* C9: the answer to GET /api/health is 200 {"status":"ok"} when the store
\* answers at that moment and 503 {"status":"down"} when it does not,
\* whatever was answered before; the step sends no statement and leaves the
\* table as it was.
C9_HealthFollowsStore ==
    [][\A c \in Clients :
        (clients[c].pc = "sent" /\ clients'[c].pc # "sent" /\ On(c, "GET", HealthPath))
        => /\ clients'[c].pc = "done"
           /\ clients'[c].resp.status =
                (IF dbUp THEN StatusOK ELSE StatusServiceUnavailable)
           /\ clients'[c].resp.body = StatusPayload(IF dbUp THEN "ok" ELSE "down")
           /\ clients'[c].stmts = 0
           /\ table' = table
           /\ seq' = seq]_vars

\* C9 witness: the store was cut off after startup and health answered 503.
C9_Witness ==
    \E c \in Answers("GET", HealthPath) :
        /\ clients[c].resp.status = StatusServiceUnavailable
        /\ clients[c].resp.body.text = "down"

\* C10: under any interleaving, a 201 answer holds the row its own request
\* inserted, with its own trimmed title and the id and created_at of that
\* row, and no two 201 answers hold the same id.
C10_OwnRowReturned ==
    /\ \A c \in Answers("POST", ItemsPath) :
        clients[c].resp.status = StatusCreated
        => /\ clients[c].resp.body.item = clients[c].inserted
           /\ clients[c].resp.body.item \in table
           /\ clients[c].resp.body.item.title = TrimSpace(clients[c].req.body.title)
    /\ \A i \in 1..Len(hist) : \A j \in 1..Len(hist) :
        i # j => hist[i].item.id # hist[j].item.id

\* C10 witness: two requests with different titles, each sent before any
\* 201 answer was given, both answered 201.
C10_Witness ==
    \E c \in Clients : \E d \in Clients :
        /\ c # d
        /\ Done(c) /\ clients[c].resp.status = StatusCreated
        /\ Done(d) /\ clients[d].resp.status = StatusCreated
        /\ clients[c].prior = clients[d].prior
        /\ clients[c].resp.body.item.title # clients[d].resp.body.item.title

====
